---- MODULE Spec2Model ----
(***************************************************************************)
(* gopkgredir: a vanity-import-path redirector (src/main.go).              *)
(*                                                                         *)
(* Strings are sequences of lexemes.  A lexeme is one character ("/", ":", *)
(* the double quote) or a run of ordinary letters, digits and dots that    *)
(* the code never looks inside ("x", "http", "git", "[::1]:80").           *)
(* Only printable characters are modelled.                                 *)
(***************************************************************************)
EXTENDS Naturals, Sequences, FiniteSets, TLC

VARIABLES
    flags,      \* the command line / environment the process was started with
    pc,         \* where the process is: start, setup, listening, serving, fatal
    cfg,        \* var cfg config (src/main.go:55)
    cfgWrites,  \* how many times cfg has been assigned
    manager,    \* calls made on var manager letsencrypt.Manager, in order
    listeners,  \* the listeners that are bound
    log,        \* what has been logged, in order
    req,        \* the request most recently received, as it arrived
    resp        \* what its handler left: the listener, the handler, the
                \* http.ResponseWriter and the request after the handler ran

vars == <<flags, pc, cfg, cfgWrites, manager, listeners, log, req, resp>>

----------------------------------------------------------------------------
(* Bounds of the model *)

\* longest redirect-url flag value, in lexemes
MaxURLLen == 2
\* longest request path, in lexemes
MaxPathLen == 4
\* longest request query, in lexemes
MaxQueryLen == 1
\* longest request path while the whole process is followed, in lexemes
MaxStartPathLen == 2

----------------------------------------------------------------------------
(* Strings *)

Strings(S, n) == UNION {[1..k -> S] : k \in 0..n}

QUOT == "\""

\* the index of the first occurrence of c in s, 0 when there is none
IndexOf(s, c) ==
    IF \E i \in 1..Len(s) : s[i] = c
    THEN CHOOSE i \in 1..Len(s) : s[i] = c /\ \A j \in 1..(i - 1) : s[j] # c
    ELSE 0

\* strings.Split(s, sep) for a one-character separator
RECURSIVE Split(_, _)
Split(s, sep) ==
    LET i == IndexOf(s, sep)
    IN  IF i = 0
        THEN <<s>>
        ELSE <<SubSeq(s, 1, i - 1)>> \o Split(SubSeq(s, i + 1, Len(s)), sep)

----------------------------------------------------------------------------
(* net/http: the response writer and the request URL *)

NoHeader == [ContentType |-> "", NoSniff |-> "", Location |-> <<>>]

\* a fresh http.ResponseWriter: nothing written yet
NewResponse ==
    [wroteHeader |-> FALSE, status |-> 0, header |-> NoHeader, sent |-> NoHeader,
     calls |-> <<>>, text |-> <<>>, page |-> <<>>]

\* w.WriteHeader(code): the first call fixes the status line and the headers
\* that go out; a later call is superfluous and changes neither
WriteHeader(w, code) ==
    IF w.wroteHeader
    THEN [w EXCEPT !.calls = Append(@, code)]
    ELSE [w EXCEPT !.calls = Append(@, code), !.wroteHeader = TRUE,
                   !.status = code, !.sent = w.header]

StatusOK == 200

\* w.Write: an implicit WriteHeader(200) when no header was written yet
ImplicitHeader(w) == IF w.wroteHeader THEN w ELSE WriteHeader(w, StatusOK)

WriteText(w, chunk) == [ImplicitHeader(w) EXCEPT !.text = Append(@, chunk)]

WritePage(w, page) == [ImplicitHeader(w) EXCEPT !.page = Append(@, page)]

\* (*url.URL).String() of the pinned toolchain (GO_VERSION 1.6.2), for a URL
\* without user,
\* opaque part or fragment: "//" follows whenever a scheme or a host is set
URLString(u) ==
    (IF u.Scheme # <<>> THEN u.Scheme \o <<":">> ELSE <<>>)
    \o (IF u.Scheme # <<>> \/ u.Host # <<>> THEN <<"/", "/">> \o u.Host ELSE <<>>)
    \o (IF u.Path # <<>> /\ u.Path[1] # "/" /\ u.Host # <<>> THEN <<"/">> ELSE <<>>)
    \o u.Path
    \o (IF u.RawQuery # <<>> THEN <<"?">> \o u.RawQuery ELSE <<>>)

----------------------------------------------------------------------------
(* html/template: the escapers the parsed template tpl applies to a value  *)
(* of type string, by the place of the action in the document              *)

\* htmlReplacementTable, used inside a quoted attribute value
HTMLReplacement(c) ==
    CASE c = QUOT -> "&#34;"
      [] c = "&"  -> "&amp;"
      [] c = "'"  -> "&#39;"
      [] c = "+"  -> "&#43;"
      [] c = "<"  -> "&lt;"
      [] c = ">"  -> "&gt;"
      [] OTHER    -> c

AttrEscaper(s) == [i \in 1..Len(s) |-> HTMLReplacement(s[i])]

SafeProtocols == {<<"http">>, <<"https">>, <<"mailto">>}

FilterFailsafe == <<"#", "ZgotmplZ">>

\* urlFilter: a value with a protocol other than http, https or mailto is
\* replaced; the protocol is what precedes the first ":" when no "/" does
URLFilter(s) ==
    LET i == IndexOf(s, ":")
    IN  IF i > 0 /\ IndexOf(SubSeq(s, 1, i - 1), "/") = 0
             /\ SubSeq(s, 1, i - 1) \notin SafeProtocols
        THEN FilterFailsafe
        ELSE s

\* urlNormalizer: characters that may not stand in a URL are percent-encoded
URLNormalize(c) ==
    CASE c = QUOT -> "%22"
      [] c = " "  -> "%20"
      [] c = "<"  -> "%3c"
      [] c = ">"  -> "%3e"
      [] c = "'"  -> "%27"
      [] OTHER    -> c

URLNormalizer(s) == [i \in 1..Len(s) |-> URLNormalize(s[i])]

\* html.ExecuteTemplate(w, htmlTplName, ctx): the three places of tpl that
\* hold actions, each rendered through the escapers of its context
ExecuteTemplate(ctx) ==
    [goImport |-> AttrEscaper(ctx.ImportPrefix) \o <<"/">> \o AttrEscaper(ctx.RepoName)
                  \o <<" ">> \o AttrEscaper(ctx.VCS) \o <<" ">>
                  \o AttrEscaper(ctx.RepoRoot) \o <<"/">> \o AttrEscaper(ctx.RepoName),
     refresh  |-> <<"0; url=">> \o AttrEscaper(ctx.RedirectURL),
     href     |-> AttrEscaper(URLNormalizer(URLFilter(ctx.RedirectURL)))]

----------------------------------------------------------------------------
(* The request handler *)

\* type context: config embedded, RepoName, and a RedirectURL that shadows
\* the embedded one
Context(c, repoName, redirectURL) ==
    [ImportPrefix |-> c.ImportPrefix, VCS |-> c.VCS, RepoRoot |-> c.RepoRoot,
     RepoName |-> repoName, RedirectURL |-> redirectURL]

\* handler with the package name taken to be all that follows the first "/"
handlerWholePath(c, r) ==
    LET path == r.URL.Path
        name == IF Len(path) > 0 THEN Tail(path) ELSE <<>>
        ctx  == Context(c, name,
                        IF Len(c.RedirectURL) = 0
                        THEN c.RepoRoot \o <<"/">> \o name
                        ELSE c.RedirectURL)
        w0   == [NewResponse EXCEPT !.header.ContentType = "text/html; charset=utf-8"]
    IN  [w |-> WritePage(w0, ExecuteTemplate(ctx)), r |-> r, cfg |-> c]

\* the function handler() returns, applied to a fresh writer and request r
handler(c, r) ==
    LET pkg == Split(r.URL.Path, "/")
        ctx == IF Len(pkg) > 1
               THEN Context(c, pkg[2],
                            IF Len(c.RedirectURL) = 0
                            THEN c.RepoRoot \o <<"/">> \o pkg[2]
                            ELSE c.RedirectURL)
               ELSE Context(c, <<>>, c.RedirectURL)
        w0  == [NewResponse EXCEPT !.header.ContentType = "text/html; charset=utf-8"]
    IN  [w |-> WritePage(w0, ExecuteTemplate(ctx)), r |-> r, cfg |-> c]

----------------------------------------------------------------------------
(* The plaintext-to-TLS redirect handler *)

StatusNotFound == 404

StatusFound == 302

\* http.Error(w, msg, code)
Error(w, msg, code) ==
    LET w1 == [w EXCEPT !.header.ContentType = "text/plain; charset=utf-8",
                        !.header.NoSniff = "nosniff"]
    IN  WriteText(WriteHeader(w1, code), msg)

\* http.Redirect(w, r, url, code) for a url that has a scheme: the Location
\* header, the status, and a short note in the body of a GET
Redirect(w, r, url, code) ==
    LET w1 == WriteHeader([w EXCEPT !.header.Location = url], code)
    IN  IF r.Method = "GET" THEN WriteText(w1, "Found") ELSE w1

\* redirectHTTP with a return after http.Error
redirectReturnEarly(c, r) ==
    LET u == [r.URL EXCEPT !.Host = c.PublicTLSAddress, !.Scheme = <<"https">>]
    IN  IF r.TLS \/ r.Host = <<>>
        THEN [w |-> Error(NewResponse, "not found", StatusNotFound), r |-> r, cfg |-> c]
        ELSE [w |-> Redirect(NewResponse, r, URLString(u), StatusFound),
              r |-> [r EXCEPT !.URL = u], cfg |-> c]

\* redirectHTTP with the test for an empty host after the redirect
redirectBeforeError(c, r) ==
    LET u  == [r.URL EXCEPT !.Host = c.PublicTLSAddress, !.Scheme = <<"https">>]
        w1 == Redirect(NewResponse, r, URLString(u), StatusFound)
    IN  [w |-> IF r.TLS \/ r.Host = <<>>
               THEN Error(w1, "not found", StatusNotFound)
               ELSE w1,
         r |-> [r EXCEPT !.URL = u], cfg |-> c]

\* redirectHTTP that redirects to the host the request named
redirectKeepHost(c, r) ==
    LET w1 == IF r.TLS \/ r.Host = <<>>
              THEN Error(NewResponse, "not found", StatusNotFound)
              ELSE NewResponse
        u  == [r.URL EXCEPT !.Host = r.Host, !.Scheme = <<"https">>]
    IN  [w |-> Redirect(w1, r, URLString(u), StatusFound),
         r |-> [r EXCEPT !.URL = u], cfg |-> c]

\* redirectHTTP that stores the request's host in cfg.PublicTLSAddress
redirectStoresHost(c, r) ==
    LET w1 == IF r.TLS \/ r.Host = <<>>
              THEN Error(NewResponse, "not found", StatusNotFound)
              ELSE NewResponse
        c1 == [c EXCEPT !.PublicTLSAddress = r.Host]
        u  == [r.URL EXCEPT !.Host = c1.PublicTLSAddress, !.Scheme = <<"https">>]
    IN  [w |-> Redirect(w1, r, URLString(u), StatusFound),
         r |-> [r EXCEPT !.URL = u], cfg |-> c1]

\* func redirectHTTP(w, r); u aliases r.URL, so the request's URL is rewritten
redirectHTTP(c, r) ==
    LET w1 == IF r.TLS \/ r.Host = <<>>
              THEN Error(NewResponse, "not found", StatusNotFound)
              ELSE NewResponse
        u  == [r.URL EXCEPT !.Host = c.PublicTLSAddress, !.Scheme = <<"https">>]
    IN  [w |-> Redirect(w1, r, URLString(u), StatusFound),
         r |-> [r EXCEPT !.URL = u], cfg |-> c]

----------------------------------------------------------------------------
(* Start-up: func setup (app.Before) and func run (app.Action) *)

\* the zero value of type config, which var cfg holds until setup assigns it
ZeroConfig ==
    [ImportPrefix |-> <<>>, VCS |-> <<>>, RepoRoot |-> <<>>, RedirectURL |-> <<>>,
     ListenAddress |-> <<>>, TLSListenAddress |-> <<>>, PublicTLSAddress |-> <<>>,
     TLS |-> FALSE]

\* the config literal setup assigns to cfg, f being the flag values
NewConfig(f) ==
    [ImportPrefix |-> f.ImportPrefix, VCS |-> f.VCS, RepoRoot |-> f.RepoRoot,
     RedirectURL |-> f.RedirectURL, ListenAddress |-> f.ListenAddress,
     TLSListenAddress |-> f.TLSListenAddress,
     PublicTLSAddress |-> f.PublicTLSAddress, TLS |-> ~f.NoTLS]

Listener(addr, h, tls) == [addr |-> addr, handler |-> h, tls |-> tls, serving |-> TRUE]

\* main: an error returned by app.Run ends the process in log.Fatal
Fatal(entries) ==
    /\ pc' = "fatal"
    /\ log' = log \o entries

\* setup, first statement: cfg = config{...}; without TLS setup returns nil
SetupConfig ==
    /\ pc = "start"
    /\ cfg' = NewConfig(flags)
    /\ cfgWrites' = cfgWrites + 1
    /\ pc' = IF NewConfig(flags).TLS THEN "cache" ELSE "setup"
    /\ UNCHANGED <<flags, manager, listeners, log, req, resp>>

\* SetupCache that goes on to Register whatever the email
SetupCacheAlwaysRegister(cacheErr) ==
    /\ pc = "cache"
    /\ manager' = Append(manager, "CacheFile")
    /\ IF cacheErr
       THEN Fatal(<<"fatal: CacheFile">>)
       ELSE /\ pc' = "register"
            /\ log' = log
    /\ UNCHANGED <<flags, cfg, cfgWrites, listeners, req, resp>>

\* setup, cfg.TLS: manager.CacheFile(cache-file); its error is returned,
\* and Register is reached only with an email
SetupCache(cacheErr) ==
    /\ pc = "cache"
    /\ manager' = Append(manager, "CacheFile")
    /\ IF cacheErr
       THEN Fatal(<<"fatal: CacheFile">>)
       ELSE /\ pc' = IF Len(flags.Email) > 0 THEN "register" ELSE "setup"
            /\ log' = log
    /\ UNCHANGED <<flags, cfg, cfgWrites, listeners, req, resp>>

\* setup, len(email) > 0: manager.Register(email, nil); its error is returned
SetupRegister(registerErr) ==
    /\ pc = "register"
    /\ manager' = Append(manager, "Register")
    /\ IF registerErr
       THEN Fatal(<<"fatal: Register">>)
       ELSE /\ pc' = "setup"
            /\ log' = log
    /\ UNCHANGED <<flags, cfg, cfgWrites, listeners, req, resp>>

\* run, !cfg.TLS: http.ListenAndServe(cfg.ListenAddress, handler()), which
\* binds and serves, or returns the error of the bind
RunPlain(bindErr) ==
    /\ pc = "setup"
    /\ ~cfg.TLS
    /\ IF bindErr
       THEN /\ Fatal(<<"listening for http", "fatal: ListenAndServe">>)
            /\ listeners' = listeners
       ELSE /\ pc' = "serving"
            /\ listeners' = listeners \cup {Listener(cfg.ListenAddress, "handler", FALSE)}
            /\ log' = Append(log, "listening for http")
    /\ UNCHANGED <<flags, cfg, cfgWrites, manager, req, resp>>

\* RunListen whose goroutine serves handler() on the plaintext listener
RunListenContent(bindErr) ==
    /\ pc = "setup"
    /\ cfg.TLS
    /\ IF bindErr
       THEN /\ Fatal(<<"fatal: Listen">>)
            /\ listeners' = listeners
       ELSE /\ pc' = "listening"
            /\ listeners' = listeners \cup {Listener(cfg.ListenAddress, "handler", FALSE)}
            /\ log' = Append(log, "listening for http")
    /\ UNCHANGED <<flags, cfg, cfgWrites, manager, req, resp>>

\* run, cfg.TLS: net.Listen on cfg.ListenAddress, whose error run returns,
\* then the goroutine that serves redirectHTTP on the listener
RunListen(bindErr) ==
    /\ pc = "setup"
    /\ cfg.TLS
    /\ IF bindErr
       THEN /\ Fatal(<<"fatal: Listen">>)
            /\ listeners' = listeners
       ELSE /\ pc' = "listening"
            /\ listeners' = listeners
                              \cup {Listener(cfg.ListenAddress, "redirectHTTP", FALSE)}
            /\ log' = Append(log, "listening for http")
    /\ UNCHANGED <<flags, cfg, cfgWrites, manager, req, resp>>

\* serveHTTPS, which run calls last: srv.ListenAndServeTLS binds
\* cfg.TLSListenAddress and serves handler(); on the error of the bind run
\* returns it and the deferred l.Close() closes the plaintext listener
ServeHTTPS(bindErr) ==
    /\ pc = "listening"
    /\ IF bindErr
       THEN /\ Fatal(<<"listening for tls", "fatal: ListenAndServeTLS">>)
            /\ listeners' = {}
       ELSE /\ pc' = "serving"
            /\ listeners' = listeners \cup {Listener(cfg.TLSListenAddress, "handler", TRUE)}
            /\ log' = Append(log, "listening for tls")
    /\ UNCHANGED <<flags, cfg, cfgWrites, manager, req, resp>>

\* HTTPServeError with log.Fatalf in place of log.Printf
HTTPServeErrorFatal ==
    /\ pc \in {"listening", "serving"}
    /\ \E l \in listeners : l.handler = "redirectHTTP" /\ l.serving
    /\ Fatal(<<"error starting http listener">>)
    /\ listeners' = {}
    /\ UNCHANGED <<flags, cfg, cfgWrites, manager, req, resp>>

\* http.Serve(l, redirectHTTP) returns an error in run's goroutine: it is
\* logged and the goroutine ends; l stays open and nothing accepts on it
HTTPServeError ==
    /\ pc \in {"listening", "serving"}
    /\ \E l \in listeners : l.handler = "redirectHTTP" /\ l.serving
    /\ pc' = pc
    /\ listeners' = {IF l.handler = "redirectHTTP" THEN [l EXCEPT !.serving = FALSE] ELSE l
                     : l \in listeners}
    /\ log' = Append(log, "error starting http listener")
    /\ UNCHANGED <<flags, cfg, cfgWrites, manager, req, resp>>

\* the call run ends in (http.ListenAndServe, srv.ListenAndServeTLS) returns
\* an error while serving: run returns it and main ends in log.Fatal
PrimaryServeError ==
    /\ pc = "serving"
    /\ Fatal(IF cfg.TLS THEN <<"fatal: ListenAndServeTLS">> ELSE <<"fatal: ListenAndServe">>)
    /\ listeners' = {}
    /\ UNCHANGED <<flags, cfg, cfgWrites, manager, req, resp>>

----------------------------------------------------------------------------
(* Requests *)

NoURL == [Scheme |-> <<>>, Host |-> <<>>, Path |-> <<>>, RawQuery |-> <<>>]

NoRequest == [Method |-> "", Host |-> <<>>, TLS |-> FALSE, URL |-> NoURL]

NoResponse == [by |-> "none", addr |-> <<>>, w |-> NewResponse, r |-> NoRequest]

\* the *http.Request the server builds from a request line in origin-form
\* (path starts with "/") or from one with nothing after the authority
\* (path <<>>); tls says whether r.TLS is non-nil
Request(method, host, tls, path, query) ==
    [Method |-> method, Host |-> host, TLS |-> tls,
     URL |-> [Scheme |-> <<>>, Host |-> <<>>, Path |-> path, RawQuery |-> query]]

\* a listener whose Handler is handler() takes request r
ServeContent(r) ==
    /\ \E l \in listeners :
          /\ l.serving /\ l.handler = "handler" /\ l.tls = r.TLS
          /\ LET h == handler(cfg, r)
             IN  /\ resp' = [by |-> "handler", addr |-> l.addr, w |-> h.w, r |-> h.r]
                 /\ cfg' = h.cfg
    /\ req' = r
    /\ UNCHANGED <<flags, pc, cfgWrites, manager, listeners, log>>

\* the listener that serves redirectHTTP takes request r
ServeRedirect(r) ==
    /\ \E l \in listeners :
          /\ l.serving /\ l.handler = "redirectHTTP"
          /\ LET h == redirectHTTP(cfg, r)
             IN  /\ resp' = [by |-> "redirectHTTP", addr |-> l.addr, w |-> h.w, r |-> h.r]
                 /\ cfg' = h.cfg
    /\ req' = r
    /\ UNCHANGED <<flags, pc, cfgWrites, manager, listeners, log>>

----------------------------------------------------------------------------
(* Inputs *)

DefaultListenAddress == <<"[::1]:80">>

DefaultTLSListenAddress == <<"[::1]:443">>

Flags(prefix, vcs, root, redirect, public, noTLS, email) ==
    [ImportPrefix |-> prefix, VCS |-> vcs, RepoRoot |-> root, RedirectURL |-> redirect,
     ListenAddress |-> DefaultListenAddress, TLSListenAddress |-> DefaultTLSListenAddress,
     PublicTLSAddress |-> public, NoTLS |-> noTLS, CacheFile |-> <<"letsencrypt.cache">>,
     Email |-> email]

URLLex == {"http", "x", ":", "/", QUOT}

PathLex == {"/", "x", QUOT}

\* request paths: nothing, or "/" and what follows it
Paths(n) == {p \in Strings(PathLex, n) : p = <<>> \/ p[1] = "/"}

Queries == Strings({"q=1"}, MaxQueryLen)

ImportPrefixes == {<<>>, <<"x">>, <<QUOT>>}

RepoRoots == {<<>>, <<"x">>, <<QUOT>>, <<"http", ":", "/", "/", "x">>}

\* redirect-url values: nothing, or a string that begins as a URL or a host
\* name does, with letters or with "/"
RedirectURLs == {u \in Strings(URLLex, MaxURLLen) : u = <<>> \/ u[1] \in {"http", "x", "/"}}

PublicAddresses == {<<>>, <<"x">>, <<"x", ":", "443">>}

Hosts == {<<>>, <<"h">>}

Methods == {"GET", "POST"}

----------------------------------------------------------------------------
(* The process, from its start *)

StartFlags ==
    {Flags(<<"x">>, <<"git">>, <<"x">>, redirect, <<"x">>, noTLS, email) :
        redirect \in {<<>>, <<"x", ":">>}, noTLS \in BOOLEAN, email \in {<<>>, <<"x">>}}

StartRequests(tls) ==
    {Request("GET", host, tls, path, <<>>) : host \in Hosts, path \in Paths(MaxStartPathLen)}

Init ==
    /\ flags \in StartFlags
    /\ pc = "start"
    /\ cfg = ZeroConfig
    /\ cfgWrites = 0
    /\ manager = <<>>
    /\ listeners = {}
    /\ log = <<>>
    /\ req = NoRequest
    /\ resp = NoResponse

Next ==
    \/ SetupConfig
    \/ \E e \in BOOLEAN : SetupCache(e)
    \/ \E e \in BOOLEAN : SetupRegister(e)
    \/ \E e \in BOOLEAN : RunPlain(e)
    \/ \E e \in BOOLEAN : RunListen(e)
    \/ \E e \in BOOLEAN : ServeHTTPS(e)
    \/ HTTPServeError
    \/ PrimaryServeError
    \/ \E tls \in BOOLEAN : \E r \in StartRequests(tls) : ServeContent(r)
    \/ \E r \in StartRequests(FALSE) : ServeRedirect(r)

Spec == Init /\ [][Next]_vars

----------------------------------------------------------------------------
(* The request handler as a function of the configuration and the request: *)
(* the process serves without TLS                                          *)

HandlerFlags ==
    {Flags(prefix, <<"git">>, root, redirect, <<>>, TRUE, <<>>) :
        prefix \in ImportPrefixes, root \in RepoRoots, redirect \in RedirectURLs}

HandlerInit ==
    /\ flags \in HandlerFlags
    /\ pc = "serving"
    /\ cfg = NewConfig(flags)
    /\ cfgWrites = 1
    /\ manager = <<>>
    /\ listeners = {Listener(flags.ListenAddress, "handler", FALSE)}
    /\ log = <<"listening for http">>
    /\ req = NoRequest
    /\ resp = NoResponse

\* one request per behaviour: the handler keeps nothing between requests
HandlerNext ==
    /\ resp = NoResponse
    /\ \E path \in Paths(MaxPathLen) :
          ServeContent(Request("GET", <<"h">>, FALSE, path, <<>>))

HandlerSpec == HandlerInit /\ [][HandlerNext]_vars

----------------------------------------------------------------------------
(* redirectHTTP as a function of the configuration and the request: the    *)
(* process serves with TLS.  The handler tests r.TLS, so it is applied to  *)
(* requests with and without it.                                           *)

RedirectFlags ==
    {Flags(<<"x">>, <<"git">>, <<"x">>, <<>>, public, FALSE, <<>>) :
        public \in PublicAddresses}

RedirectInit ==
    /\ flags \in RedirectFlags
    /\ pc = "serving"
    /\ cfg = NewConfig(flags)
    /\ cfgWrites = 1
    /\ manager = <<"CacheFile">>
    /\ listeners = {Listener(flags.ListenAddress, "redirectHTTP", FALSE),
                    Listener(flags.TLSListenAddress, "handler", TRUE)}
    /\ log = <<"listening for http", "listening for tls">>
    /\ req = NoRequest
    /\ resp = NoResponse

\* one request per behaviour: the handler keeps nothing between requests
RedirectNext ==
    /\ resp = NoResponse
    /\ \E method \in Methods, host \in Hosts, tls \in BOOLEAN,
          path \in Paths(MaxPathLen), query \in Queries :
           ServeRedirect(Request(method, host, tls, path, query))

RedirectSpec == RedirectInit /\ [][RedirectNext]_vars

----------------------------------------------------------------------------
(* What a client reads in the document and what the properties speak of *)

HTMLUnescape(c) ==
    CASE c = "&#34;" -> QUOT
      [] c = "&amp;" -> "&"
      [] c = "&#39;" -> "'"
      [] c = "&#43;" -> "+"
      [] c = "&lt;"  -> "<"
      [] c = "&gt;"  -> ">"
      [] OTHER       -> c

PercentDecode(c) ==
    CASE c = "%22" -> QUOT
      [] c = "%20" -> " "
      [] c = "%3c" -> "<"
      [] c = "%3e" -> ">"
      [] c = "%27" -> "'"
      [] OTHER     -> c

\* the value of a double-quoted attribute whose text is t: it ends at the
\* first quote, and character references are replaced
AttrValue(t) ==
    LET q == IndexOf(t, QUOT)
        n == IF q = 0 THEN Len(t) ELSE q - 1
    IN  [i \in 1..n |-> HTMLUnescape(t[i])]

GoImportContent(page) == AttrValue(page.goImport)

\* what follows "0; url=" in the refresh meta tag
RefreshTarget(page) ==
    LET v == AttrValue(page.refresh)
    IN  IF v = <<>> THEN <<>> ELSE Tail(v)

\* the URL the fallback link names, percent-encoding undone
LinkTarget(page) ==
    LET v == AttrValue(page.href)
    IN  [i \in 1..Len(v) |-> PercentDecode(v[i])]

\* the first segment of a path that starts with "/": what stands between
\* that "/" and the next one, or the end
FirstSegment(p) ==
    LET rest  == Tail(p)
        stops == {i \in 1..Len(rest) : rest[i] = "/"}
        n     == IF stops = {} THEN Len(rest)
                 ELSE (CHOOSE i \in stops : \A j \in stops : i <= j) - 1
    IN  SubSeq(rest, 1, n)

\* the package name of a request path; empty when the path is
PackageOf(p) == IF p = <<>> THEN <<>> ELSE FirstSegment(p)

InLog(m) == \E i \in 1..Len(log) : log[i] = m

Answered(h) == resp.by = h /\ Len(resp.w.calls) > 0

ThePage == resp.w.page[1]

HTTPSLocation(public, path, query) ==
    <<"https", ":", "/", "/">> \o public \o path
    \o (IF query # <<>> THEN <<"?">> \o query ELSE <<>>)

PlainListener == Listener(cfg.ListenAddress, "handler", FALSE)

RedirectListener == Listener(cfg.ListenAddress, "redirectHTTP", FALSE)

TLSListener == Listener(cfg.TLSListenAddress, "handler", TRUE)

----------------------------------------------------------------------------
(* Properties *)

\* C1: with no redirect-url override, a request for /<pkg> or /<pkg>/<more>
\* with pkg not empty gets a page whose go-import content is
\* ImportPrefix "/" pkg " " VCS " " RepoRoot "/" pkg, pkg being the first
\* path segment only.
C1_GoImportContent ==
    (Answered("handler") /\ cfg.RedirectURL = <<>>
        /\ req.URL.Path # <<>> /\ FirstSegment(req.URL.Path) # <<>>)
    => /\ Len(resp.w.page) = 1
       /\ resp.w.status = StatusOK
       /\ resp.w.sent.ContentType = "text/html; charset=utf-8"
       /\ GoImportContent(ThePage)
            = cfg.ImportPrefix \o <<"/">> \o FirstSegment(req.URL.Path) \o <<" ">>
              \o cfg.VCS \o <<" ">>
              \o cfg.RepoRoot \o <<"/">> \o FirstSegment(req.URL.Path)

C1_Witness ==
    /\ Answered("handler")
    /\ cfg.RedirectURL = <<>>
    /\ cfg.ImportPrefix = <<QUOT>>
    /\ cfg.RepoRoot = <<"http", ":", "/", "/", "x">>
    /\ req.URL.Path = <<"/", "x", "/", QUOT>>
    /\ GoImportContent(ThePage)
         = <<QUOT, "/", "x", " ", "git", " ", "http", ":", "/", "/", "x", "/", "x">>

\* C2 (as claimed): with no redirect-url override, every request the handler
\* answers, the path "/" and the empty path included, gets the refresh
\* target RepoRoot "/" pkg.
C2_RefreshTargetEveryPath ==
    (Answered("handler") /\ cfg.RedirectURL = <<>>)
    => RefreshTarget(ThePage) = cfg.RepoRoot \o <<"/">> \o PackageOf(req.URL.Path)

\* C3 (as claimed): with a redirect-url override, the refresh target and the
\* target of the fallback link both equal the override, whatever the path,
\* and equal each other.
C3_OverrideBothTargets ==
    (Answered("handler") /\ cfg.RedirectURL # <<>>)
    => /\ RefreshTarget(ThePage) = cfg.RedirectURL
       /\ LinkTarget(ThePage) = cfg.RedirectURL
       /\ LinkTarget(ThePage) = RefreshTarget(ThePage)

C5_NotFoundStatus ==
    (Answered("redirectHTTP") /\ (req.TLS \/ req.Host = <<>>))
    => /\ resp.w.status = StatusNotFound
       /\ resp.w.status # StatusFound
       /\ resp.w.text[1] = "not found"
       /\ resp.w.sent.ContentType = "text/plain; charset=utf-8"
       /\ resp.w.sent.Location = <<>>

C5_Witness ==
    /\ Answered("redirectHTTP")
    /\ ~req.TLS
    /\ req.Host = <<>>
    /\ req.URL.Path = <<"/", "x">>
    /\ resp.w.status = StatusNotFound

\* C6: the listeners are those TLS decides.  Without TLS: at most one, on
\* ListenAddress, serving handler(), none on TLSListenAddress, and no call
\* on the certificate manager.  With TLS: the one on ListenAddress serves
\* redirectHTTP and never a page, the one on TLSListenAddress serves
\* handler().
C6_ListenersByMode ==
    /\ pc = "start" => listeners = {} /\ manager = <<>>
    /\ (pc # "start" /\ ~cfg.TLS)
       => /\ listeners \subseteq {PlainListener}
          /\ manager = <<>>
          /\ resp.by \in {"none", "handler"}
          /\ resp.by = "handler" => resp.addr = cfg.ListenAddress
    /\ (pc # "start" /\ cfg.TLS)
       => /\ \A l \in listeners :
                \/ l.addr = cfg.ListenAddress /\ l.handler = "redirectHTTP" /\ ~l.tls
                \/ l = TLSListener
          /\ resp.addr = cfg.ListenAddress
             => resp.by = "redirectHTTP" /\ resp.w.page = <<>>
          /\ resp.by = "handler" => resp.addr = cfg.TLSListenAddress /\ req.TLS
          /\ resp.by = "redirectHTTP" => resp.addr = cfg.ListenAddress

C6_Witness ==
    /\ pc = "serving"
    /\ ~cfg.TLS
    /\ listeners = {PlainListener}
    /\ Answered("handler")
    /\ Len(resp.w.page) = 1

C8_StartupOrder ==
    /\ manager \in {<<>>, <<"CacheFile">>, <<"CacheFile", "Register">>}
    /\ manager # <<>> => cfgWrites = 1
    /\ flags.Email = <<>> => manager \in {<<>>, <<"CacheFile">>}
    /\ (listeners # {} \/ pc \in {"listening", "serving"}
            \/ InLog("listening for http") \/ InLog("listening for tls"))
       => /\ cfgWrites = 1
          /\ cfg.TLS => manager = (IF flags.Email # <<>>
                                   THEN <<"CacheFile", "Register">>
                                   ELSE <<"CacheFile">>)
          /\ ~InLog("fatal: CacheFile")
          /\ ~InLog("fatal: Register")
    /\ (InLog("fatal: CacheFile") \/ InLog("fatal: Register"))
       => /\ pc = "fatal"
          /\ listeners = {}
          /\ Len(log) = 1

C8_Witness ==
    /\ cfg.TLS
    /\ pc = "serving"
    /\ manager = <<"CacheFile", "Register">>
    /\ listeners = {RedirectListener, TLSListener}

\* C9: cfg is assigned once, in setup, before any listener is bound; from
\* then on it holds the values of the flags, whatever requests the two
\* handlers answer.
C9_ConfigWrittenOnce ==
    /\ pc = "start" => cfg = ZeroConfig /\ cfgWrites = 0 /\ listeners = {}
    /\ pc # "start" => cfg = NewConfig(flags) /\ cfgWrites = 1

C9_Witness ==
    /\ cfg.TLS
    /\ pc = "serving"
    /\ Answered("redirectHTTP")
    /\ req.Host = <<"h">>
    /\ resp.r.URL.Host = cfg.PublicTLSAddress
    /\ resp.r.URL # req.URL
    /\ cfg = NewConfig(flags)

\* C10: redirectHTTP does not return after the 404: for a request with an
\* empty host, or a TLS-marked one, it goes on to rewrite the URL and to
\* call the redirect, so WriteHeader is called with 404 and then with 302.
C10_RedirectAfterNotFound ==
    (Answered("redirectHTTP") /\ (req.TLS \/ req.Host = <<>>))
    => /\ resp.w.calls = <<StatusNotFound, StatusFound>>
       /\ resp.r.URL.Scheme = <<"https">>
       /\ resp.r.URL.Host = cfg.PublicTLSAddress
       /\ resp.w.header.Location
            = HTTPSLocation(cfg.PublicTLSAddress, req.URL.Path, req.URL.RawQuery)

C10_Witness ==
    /\ Answered("redirectHTTP")
    /\ req.Host = <<>>
    /\ req.Method = "GET"
    /\ resp.w.calls = <<StatusNotFound, StatusFound>>
    /\ resp.w.text = <<"not found", "Found">>

====
